---- MODULE Spec2Model ----
(***************************************************************************)
(* Model of atlassian_mcp_server.py: the tool router handle_call_tool, the *)
(* document store it talks to through the module-level `confluence`        *)
(* handle, and the text splices of append_to_page / remove_content /       *)
(* replace_content.                                                        *)
(*                                                                         *)
(* A Python str is a sequence of one-character strings, so that            *)
(* str.replace, `in` and `+` are computed on characters.                   *)
(***************************************************************************)
EXTENDS Integers, Sequences, FiniteSets, TLC

VARIABLES
    store,      \* the remote wiki: page id -> the page, for the pages that exist
    confluence, \* per server process: the module-level handle, "None" or "client"
    sess,       \* per server process: the handle_call_tool invocation in progress
    reads       \* history: the body the store held for the page at the latest fetch
                \* of an edit call (cur) and at the fetch before it (prev); whether
                \* another writer changed the page since the latest fetch (changed)
                \* and between the two fetches (between)

vars == <<store, confluence, sess, reads>>

----------------------------------------------------------------------------
(* Bounds of the exploration *)

MaxBodyLen == 4     \* longest page body over Alphabet (initial, and after an edit)
MaxArgLen == 2      \* longest marker / target string over Alphabet
MaxPayloadLen == 1  \* longest new_content string over Alphabet
MaxBothLen == 1     \* longest marker when insert_after and insert_before are both given
MaxRaceLen == 1     \* longest body and argument string in the two-process runs

Alphabet == {"a", "b"}

RECURSIVE StrUpTo(_)
StrUpTo(n) ==
    IF n = 0 THEN {<<>>}
    ELSE LET shorter == StrUpTo(n - 1)
         IN  shorter \cup {Append(s, c) : s \in {t \in shorter : Len(t) = n - 1}, c \in Alphabet}

----------------------------------------------------------------------------
(* Python str operations *)

\* sub in s
Contains(s, sub) ==
    \E i \in 0..(Len(s) - Len(sub)) : SubSeq(s, i + 1, i + Len(sub)) = sub

StartsWith(s, sub) ==
    Len(sub) <= Len(s) /\ SubSeq(s, 1, Len(sub)) = sub

\* a replace that stops after the first occurrence (str.replace(old, new, 1))
RECURSIVE ReplaceFirstOnly(_, _, _)
ReplaceFirstOnly(s, old, new) ==
    IF old = <<>> THEN new \o s
    ELSE IF Len(s) < Len(old) THEN s
    ELSE IF StartsWith(s, old) THEN new \o SubSeq(s, Len(old) + 1, Len(s))
    ELSE <<Head(s)>> \o ReplaceFirstOnly(Tail(s), old, new)

\* a replace that steps one character past a match instead of past the whole
\* match, so that overlapping occurrences are each replaced
RECURSIVE ReplaceOverlapping(_, _, _)
ReplaceOverlapping(s, old, new) ==
    IF old = <<>>
    THEN IF s = <<>> THEN new
         ELSE new \o <<Head(s)>> \o ReplaceOverlapping(Tail(s), old, new)
    ELSE IF Len(s) < Len(old) THEN s
    ELSE IF StartsWith(s, old)
         THEN new \o ReplaceOverlapping(Tail(s), old, new)
    ELSE <<Head(s)>> \o ReplaceOverlapping(Tail(s), old, new)

\* s.replace(old, new): every non-overlapping occurrence, scanning left to
\* right; an empty `old` matches before every character and at the end.
RECURSIVE Replace(_, _, _)
Replace(s, old, new) ==
    IF old = <<>>
    THEN IF s = <<>> THEN new
         ELSE new \o <<Head(s)>> \o Replace(Tail(s), old, new)
    ELSE IF Len(s) < Len(old) THEN s
    ELSE IF StartsWith(s, old)
         THEN new \o Replace(SubSeq(s, Len(old) + 1, Len(s)), old, new)
    ELSE <<Head(s)>> \o Replace(Tail(s), old, new)

----------------------------------------------------------------------------
(* The documented example bodies, markers and payloads, character by character *)

IntroBody == <<"<", "p", ">", "I", "n", "t", "r", "o", "<", "/", "p", ">", "<", "!", "-", "-", "m", "a", "r", "k", "e", "r", "-", "-", ">", "<", "p", ">", "O", "l", "d", "<", "/", "p", ">">>
IntroMarker == <<"<", "!", "-", "-", "m", "a", "r", "k", "e", "r", "-", "-", ">">>
IntroPayload == <<"<", "p", ">", "N", "e", "w", "<", "/", "p", ">">>
IntroResult == <<"<", "p", ">", "I", "n", "t", "r", "o", "<", "/", "p", ">", "<", "!", "-", "-", "m", "a", "r", "k", "e", "r", "-", "-", ">", "<", "p", ">", "N", "e", "w", "<", "/", "p", ">", "<", "p", ">", "O", "l", "d", "<", "/", "p", ">">>

XBody == <<"X", " ", "m", "a", "r", "k", "e", "r", " ", "X">>
XXBody == <<"X", " ", "m", "a", "r", "k", "e", "r", " ", "X", " ", "m", "a", "r", "k", "e", "r", " ", "X">>
XMarker == <<"m", "a", "r", "k", "e", "r">>
XPayload == <<"!">>
XResult == <<"X", " ", "m", "a", "r", "k", "e", "r", "!", " ", "X">>
XXResult == <<"X", " ", "m", "a", "r", "k", "e", "r", "!", " ", "X", " ", "m", "a", "r", "k", "e", "r", "!", " ", "X">>

ExampleBodies == {IntroBody, XBody, XXBody}

----------------------------------------------------------------------------
(* Tool names and their argument mappings *)

EditTools == {"append_to_page", "remove_content", "replace_content"}
ReadTools == {"list_spaces", "get_pages", "get_page_content", "find_page",
              "get_full_page_content"}
CreateTools == {"create_page", "create_code_documentation"}
ToolNames == EditTools \cup ReadTools \cup CreateTools
UnknownNames == {"delete_page", ""}

\* A Python value that may be None
None == [some |-> FALSE, val |-> <<>>]
Some(v) == [some |-> TRUE, val |-> v]

\* `arguments`: None, or the dict m (a function from the keys it holds)
NoArguments == [given |-> FALSE, map |-> <<>>]
Dict(m) == [given |-> TRUE, map |-> m]
EmptyDict == Dict(<<>>)
Opt(values) == {None} \cup {Some(v) : v \in values}

Has(arguments, k) == arguments.given /\ k \in DOMAIN arguments.map

\* arguments.get(k): None when the key is absent
Get(arguments, k) == IF Has(arguments, k) THEN Some(arguments.map[k]) ELSE None

\* `if x:` on an optional str: None and "" are both false
Truthy(x) == x.some /\ x.val # <<>>

\* The exception arguments[k] raises, "" when it raises none: TypeError on
\* None ('NoneType' object is not subscriptable), KeyError on an absent key.
Subscript(arguments, k) ==
    IF ~arguments.given THEN "TypeError"
    ELSE IF k \notin DOMAIN arguments.map THEN "KeyError"
    ELSE ""

\* The first exception raised by reading the keys ks in order
RECURSIVE FirstExc(_, _)
FirstExc(arguments, ks) ==
    IF ks = <<>> THEN ""
    ELSE IF Subscript(arguments, Head(ks)) # "" THEN Subscript(arguments, Head(ks))
    ELSE FirstExc(arguments, Tail(ks))

RequiredKeys(name) ==
    CASE name = "append_to_page" -> <<"page_id", "new_content">>
      [] name = "remove_content" -> <<"page_id", "content_to_remove">>
      [] name = "replace_content" -> <<"page_id", "old_content", "new_content">>
      [] name = "get_pages" -> <<"space">>
      [] name = "get_page_content" -> <<"page_id">>
      [] name = "get_full_page_content" -> <<"page_id">>
      [] name = "find_page" -> <<"space", "title">>
      [] name = "create_page" -> <<"space", "title">>
      [] name = "create_code_documentation" ->
             <<"space", "title", "code_snippet", "functionality_explanation">>
      [] OTHER -> <<>>

\* every class the handlers' `except Exception` clauses catch
ExceptionKinds == {"TypeError", "KeyError", "AttributeError", "StoreError"}

\* a clause that catches only the store client's own errors
ExceptStoreErrorOnly(exc) == exc = "StoreError"

\* `except Exception as e`
ExceptException(exc) == exc \in ExceptionKinds

----------------------------------------------------------------------------
(* The splices *)

\* append_to_page with only the first occurrence of the marker spliced
AppendFirstOnly(existing_content, new_content, insert_after, insert_before) ==
    IF Truthy(insert_before)
    THEN IF Contains(existing_content, insert_before.val)
         THEN ReplaceFirstOnly(existing_content, insert_before.val,
                               new_content \o insert_before.val)
         ELSE existing_content \o new_content
    ELSE IF Truthy(insert_after)
    THEN IF Contains(existing_content, insert_after.val)
         THEN ReplaceFirstOnly(existing_content, insert_after.val,
                               insert_after.val \o new_content)
         ELSE existing_content \o new_content
    ELSE existing_content \o new_content

\* append_to_page that leaves the body alone when the marker is not found
AppendNoFallback(existing_content, new_content, insert_after, insert_before) ==
    IF Truthy(insert_before)
    THEN Replace(existing_content, insert_before.val, new_content \o insert_before.val)
    ELSE IF Truthy(insert_after)
    THEN Replace(existing_content, insert_after.val, insert_after.val \o new_content)
    ELSE existing_content \o new_content

\* append_to_page that puts the payload in the marker's place
AppendDropsMarker(existing_content, new_content, insert_after, insert_before) ==
    IF Truthy(insert_before)
    THEN IF Contains(existing_content, insert_before.val)
         THEN Replace(existing_content, insert_before.val, new_content)
         ELSE existing_content \o new_content
    ELSE IF Truthy(insert_after)
    THEN IF Contains(existing_content, insert_after.val)
         THEN Replace(existing_content, insert_after.val, new_content)
         ELSE existing_content \o new_content
    ELSE existing_content \o new_content

\* append_to_page that looks at insert_after before insert_before
AppendAfterFirst(existing_content, new_content, insert_after, insert_before) ==
    IF Truthy(insert_after)
    THEN IF Contains(existing_content, insert_after.val)
         THEN Replace(existing_content, insert_after.val,
                      insert_after.val \o new_content)
         ELSE existing_content \o new_content
    ELSE IF Truthy(insert_before)
    THEN IF Contains(existing_content, insert_before.val)
         THEN Replace(existing_content, insert_before.val,
                      new_content \o insert_before.val)
         ELSE existing_content \o new_content
    ELSE existing_content \o new_content

\* append_to_page: where the new content goes
AppendBody(existing_content, new_content, insert_after, insert_before) ==
    IF Truthy(insert_before)
    THEN IF Contains(existing_content, insert_before.val)
         THEN Replace(existing_content, insert_before.val,
                      new_content \o insert_before.val)
         ELSE existing_content \o new_content
    ELSE IF Truthy(insert_after)
    THEN IF Contains(existing_content, insert_after.val)
         THEN Replace(existing_content, insert_after.val,
                      insert_after.val \o new_content)
         ELSE existing_content \o new_content
    ELSE existing_content \o new_content

\* remove_content that deletes the first occurrence only
RemoveFirstOnly(existing_content, content_to_remove) ==
    ReplaceFirstOnly(existing_content, content_to_remove, <<>>)

\* remove_content
RemoveBody(existing_content, content_to_remove) ==
    Replace(existing_content, content_to_remove, <<>>)

\* replace_content that, like append_to_page, adds the new content at the end
\* when the old content is not found
ReplaceWithFallback(existing_content, old_content, new_content) ==
    IF Contains(existing_content, old_content)
    THEN Replace(existing_content, old_content, new_content)
    ELSE existing_content \o new_content

\* replace_content
ReplaceBody(existing_content, old_content, new_content) ==
    Replace(existing_content, old_content, new_content)

\* updated_content of an edit tool, from the fetched body and the arguments
UpdatedContent(name, arguments, existing_content) ==
    CASE name = "append_to_page" ->
             AppendBody(existing_content, arguments.map["new_content"],
                        Get(arguments, "insert_after"), Get(arguments, "insert_before"))
      [] name = "remove_content" ->
             RemoveBody(existing_content, arguments.map["content_to_remove"])
      [] name = "replace_content" ->
             ReplaceBody(existing_content, arguments.map["old_content"],
                         arguments.map["new_content"])

----------------------------------------------------------------------------
(* The store, the results and the invocation in progress *)

PageIds == {"p1", "p2"}
Spaces == {"S"}
HomeTitle == <<"T">>

NoPage == [title |-> <<>>, body |-> <<>>]

\* a page of the wiki
Page(space, title, body, parent) ==
    [space |-> space, title |-> title, body |-> body, parent |-> parent]

\* [TextContent(type="text", text=...)], the text kept as its parts
Text(parts) == [kind |-> "text", text |-> parts]
\* an exception leaving handle_call_tool
Raise(exc, parts) == [kind |-> "raise", text |-> <<exc>> \o parts]
NoResult == [kind |-> "none", text |-> <<>>]

ErrorPrefix(name) ==
    CASE name = "list_spaces" -> "Error listing spaces: "
      [] name = "get_pages" -> "Error getting pages: "
      [] name = "get_page_content" -> "Error getting page content: "
      [] name = "find_page" -> "Error finding pages: "
      [] name = "create_page" -> "Couldn't create the page: "
      [] name = "create_code_documentation" -> "Couldn't create the code documentation: "
      [] name = "append_to_page" -> "Error inserting content: "
      [] name = "get_full_page_content" -> "Error getting full page content: "
      [] name = "remove_content" -> "Error removing content: "
      [] name = "replace_content" -> "Error replacing content: "

SuccessPrefix(name) ==
    CASE name = "append_to_page" -> "Content inserted in: "
      [] name = "remove_content" -> "Content removed from: "
      [] name = "replace_content" -> "Content replaced in: "

\* what a handler's try / except makes of exception exc raised in its try body
Handled(name, exc) ==
    IF ExceptException(exc) THEN Text(<<ErrorPrefix(name), exc>>)
    ELSE Raise(exc, <<>>)

Idle == [pc |-> "idle", name |-> "", arguments |-> NoArguments,
         page_id |-> "", current_page |-> NoPage, existing_content |-> <<>>,
         updated_content |-> <<>>, result |-> NoResult, writes |-> 0,
         stale |-> FALSE]

Procs == DOMAIN sess

\* no edit call has fetched a page yet
NoReads == [prev |-> None, cur |-> None, changed |-> FALSE, between |-> FALSE]

\* the invocation of process s returns `result` without touching the store
Finish(s, name, arguments, result) ==
    sess' = [sess EXCEPT ![s] = [Idle EXCEPT !.pc = "done", !.name = name,
                                             !.arguments = arguments,
                                             !.result = result]]

----------------------------------------------------------------------------
(* append_to_page, remove_content, replace_content *)

\* The exception confluence.get_page_by_id(page_id, expand='body.storage')
\* raises in process s, "" when it returns the page
FetchExc(s, page_id, fault) ==
    IF confluence[s] = "None" THEN "AttributeError"
    ELSE IF fault \/ page_id \notin DOMAIN store THEN "StoreError"
    ELSE ""

\* a fetch that answers from the page the previous fetch of the process returned
get_page_by_id_cached(s, page_id) ==
    IF reads.cur.some THEN [store[page_id] EXCEPT !.body = reads.cur.val]
    ELSE store[page_id]

\* confluence.get_page_by_id(page_id, expand='body.storage') when it returns:
\* the page as the store holds it at the time of the call
get_page_by_id(s, page_id) ==
    store[page_id]

\* an edit tool that, when the page cannot be fetched, saves the splice of an
\* empty body under the page id before it reports the failure
EditFetchSavesOnFailure(s, name, arguments, fault) ==
    /\ sess[s].pc = "idle"
    /\ name \in EditTools
    /\ LET exc == FirstExc(arguments, RequiredKeys(name))
           page_id == arguments.map["page_id"]
       IN  IF exc # "" THEN Finish(s, name, arguments, Handled(name, exc)) /\ UNCHANGED store
           ELSE IF FetchExc(s, page_id, fault) # ""
           THEN /\ Finish(s, name, arguments, Handled(name, FetchExc(s, page_id, fault)))
                /\ store' = IF page_id \in DOMAIN store
                            THEN [store EXCEPT ![page_id].body =
                                     UpdatedContent(name, arguments, <<>>)]
                            ELSE store
           ELSE /\ sess' = [sess EXCEPT ![s] =
                        [Idle EXCEPT !.pc = "fetched", !.name = name,
                                     !.arguments = arguments, !.page_id = page_id,
                                     !.current_page =
                                         [title |-> get_page_by_id(s, page_id).title,
                                          body |-> get_page_by_id(s, page_id).body],
                                     !.existing_content = get_page_by_id(s, page_id).body,
                                     !.updated_content =
                                         UpdatedContent(name, arguments,
                                                        get_page_by_id(s, page_id).body)]]
                /\ UNCHANGED store
    /\ UNCHANGED confluence

\* From the call to the computed updated_content: the arguments are read, the
\* page is fetched and the splice is applied to the fetched body.
EditFetch(s, name, arguments, fault) ==
    /\ sess[s].pc = "idle"
    /\ name \in EditTools
    /\ LET exc == FirstExc(arguments, RequiredKeys(name))
           page_id == arguments.map["page_id"]
       IN  IF exc # "" THEN Finish(s, name, arguments, Handled(name, exc))
           ELSE IF FetchExc(s, page_id, fault) # ""
           THEN Finish(s, name, arguments, Handled(name, FetchExc(s, page_id, fault)))
           ELSE sess' = [sess EXCEPT ![s] =
                    [Idle EXCEPT !.pc = "fetched", !.name = name,
                                 !.arguments = arguments, !.page_id = page_id,
                                 !.current_page =
                                     [title |-> get_page_by_id(s, page_id).title,
                                      body |-> get_page_by_id(s, page_id).body],
                                 !.existing_content = get_page_by_id(s, page_id).body,
                                 !.updated_content =
                                     UpdatedContent(name, arguments,
                                                    get_page_by_id(s, page_id).body)]]
    /\ UNCHANGED <<store, confluence>>

\* update_page that refuses a body computed from a copy the store has since replaced
StoreAfterUpdateChecked(s, page_id, title, body) ==
    IF sess[s].stale THEN store
    ELSE [store EXCEPT ![page_id].title = title, ![page_id].body = body]

\* the store after confluence.update_page(page_id, title, body) from process s
StoreAfterUpdate(s, page_id, title, body) ==
    [store EXCEPT ![page_id].title = title, ![page_id].body = body]

\* confluence.update_page(...) and the return of the success text; a failure
\* of the store call is caught and returned as the error text.
EditPersist(s, fault) ==
    /\ sess[s].pc = "fetched"
    /\ IF fault
       THEN /\ sess' = [sess EXCEPT ![s].pc = "done",
                                    ![s].result = Handled(sess[s].name, "StoreError")]
            /\ UNCHANGED store
       ELSE /\ store' = StoreAfterUpdate(s, sess[s].page_id, sess[s].current_page.title,
                                         sess[s].updated_content)
            /\ sess' = [t \in Procs |->
                   IF t = s
                   THEN [sess[s] EXCEPT !.pc = "done", !.writes = @ + 1,
                            !.result = Text(<<SuccessPrefix(sess[s].name),
                                              sess[s].current_page.title,
                                              "URL: ", sess[s].page_id>>)]
                   ELSE IF sess[t].pc = "fetched" /\ sess[t].page_id = sess[s].page_id
                   THEN [sess[t] EXCEPT !.stale = TRUE]
                   ELSE sess[t]]
    /\ UNCHANGED confluence

\* the result has been handed to the caller; the locals are gone
Return(s) ==
    /\ sess[s].pc = "done"
    /\ sess' = [sess EXCEPT ![s] = Idle]
    /\ UNCHANGED <<store, confluence, reads>>

----------------------------------------------------------------------------
(* Page bodies built by the create tools.  A literal piece of markup of the *)
(* source is kept as one symbol of the body.                                *)

Whitespace == {" ", "\n", "\t"}

RECURSIVE LStrip(_)
LStrip(s) == IF s # <<>> /\ Head(s) \in Whitespace THEN LStrip(Tail(s)) ELSE s

RECURSIVE RStrip(_)
RStrip(s) ==
    IF s # <<>> /\ s[Len(s)] \in Whitespace THEN RStrip(SubSeq(s, 1, Len(s) - 1)) ELSE s

\* line.strip()
Strip(s) == RStrip(LStrip(s))

\* code.split('\n'): the sequence of lines
RECURSIVE SplitLines(_, _)
SplitLines(s, line) ==
    IF s = <<>> THEN <<line>>
    ELSE IF Head(s) = "\n" THEN <<line>> \o SplitLines(Tail(s), <<>>)
    ELSE SplitLines(Tail(s), Append(line, Head(s)))

DefPrefix == <<"d", "e", "f", " ">>
ClassPrefix == <<"c", "l", "a", "s", "s", " ">>
ImportPrefix == <<"i", "m", "p", "o", "r", "t", " ">>
FromPrefix == <<"f", "r", "o", "m", " ">>

\* [line.strip() for line in lines if line.strip().startswith(prefixes)]
RECURSIVE Stripped(_, _)
Stripped(lines, prefixes) ==
    IF lines = <<>> THEN <<>>
    ELSE (IF \E p \in prefixes : StartsWith(Strip(Head(lines)), p)
          THEN <<Strip(Head(lines))>> ELSE <<>>)
         \o Stripped(Tail(lines), prefixes)

ImportsShown == 5
ClassesShown == 5
FunctionsShown == 10

\* items[:n]
Take(items, n) == SubSeq(items, 1, IF Len(items) < n THEN Len(items) ELSE n)

\* the <li> entries of a list section
RECURSIVE ListItems(_)
ListItems(items) ==
    IF items = <<>> THEN <<>>
    ELSE <<"<li><code>">> \o Head(items) \o <<"</code></li>">> \o ListItems(Tail(items))

Section(heading, items) ==
    IF items = <<>> THEN <<>>
    ELSE <<heading, "<ul>">> \o ListItems(items) \o <<"</ul>">>

create_simple_content(title, content, code, file_path) ==
    IF content # <<>> THEN content
    ELSE IF code # <<>>
    THEN LET lines == SplitLines(code, <<>>)
             functions == Stripped(lines, {DefPrefix})
             classes == Stripped(lines, {ClassPrefix})
             imports == Stripped(lines, {ImportPrefix, FromPrefix})
         IN  <<"<h1>">> \o title \o <<"</h1>">>
             \o (IF file_path # <<>>
                 THEN <<"<p><strong>File:</strong> <code>">> \o file_path \o <<"</code></p>">>
                 ELSE <<>>)
             \o Section("<h2>Dependencies</h2>", Take(imports, ImportsShown))
             \o Section("<h2>Classes</h2>", Take(classes, ClassesShown))
             \o Section("<h2>Functions</h2>", Take(functions, FunctionsShown))
             \o <<"<h2>Source Code</h2>", "<ac:structured-macro ...python>",
                  "<ac:plain-text-body><![CDATA[">>
             \o code \o <<"]]></ac:plain-text-body></ac:structured-macro>">>
    ELSE <<"<h1>">> \o title \o <<"</h1>", "<p>Documentation page created.</p>">>

create_code_documentation_content(title, code_snippet, functionality_explanation, file_context, project_context) ==
    <<"<h1><strong>">> \o title \o <<"</strong></h1>", "<h2><strong>Code</strong></h2>",
      "<ac:structured-macro ...python>", "<ac:plain-text-body><![CDATA[">>
    \o code_snippet \o <<"]]></ac:plain-text-body></ac:structured-macro>",
                        "<h2><strong>Functionality</strong></h2>", "<p>">>
    \o functionality_explanation \o <<"</p>">>
    \o (IF file_context # <<>>
        THEN <<"<h2><strong>File Context</strong></h2>", "<p>">> \o file_context \o <<"</p>">>
        ELSE <<>>)
    \o (IF project_context # <<>>
        THEN <<"<h2><strong>Project Context</strong></h2>", "<p>">> \o project_context
             \o <<"</p>">>
        ELSE <<>>)

\* arguments.get(k, ""): the value, "" when the key is absent
GetOrEmpty(arguments, k) == IF Has(arguments, k) THEN arguments.map[k] ELSE <<>>

\* `if parent_id:` on an optional page id
TruthyId(x) == x.some /\ x.val # ""

----------------------------------------------------------------------------
(* The read-only tools *)

SpacesLimit == 50
PagesLimit == 50
FindLimit == 100
PreviewLen == 500

\* the first `limit` entries of a listing of the store
Limited(entries, limit) ==
    IF Cardinality(entries) <= limit THEN entries
    ELSE CHOOSE t \in SUBSET entries : Cardinality(t) = limit

PagesIn(space) == {p \in DOMAIN store : store[p].space = space}
ChildrenOf(parent) == {p \in DOMAIN store : store[p].parent = parent}
Listing(pages) == {<<p, store[p].title>> : p \in pages}

LowerChar(c) == CASE c = "T" -> "t" [] OTHER -> c
\* s.lower()
Lower(s) == [i \in 1..Len(s) |-> LowerChar(s[i])]

\* a store call of process s that needs nothing but the connection
CallExc(s, fault) ==
    IF confluence[s] = "None" THEN "AttributeError"
    ELSE IF fault THEN "StoreError"
    ELSE ""

ListSpaces(s, arguments, fault) ==
    /\ sess[s].pc = "idle"
    /\ Finish(s, "list_spaces", arguments,
              IF confluence[s] = "None" THEN Text(<<"Error: Confluence not initialized">>)
              ELSE IF fault THEN Handled("list_spaces", "StoreError")
              ELSE Text(<<"Available Confluence Spaces:", Limited(Spaces, SpacesLimit)>>))
    /\ UNCHANGED <<store, confluence>>

GetPages(s, arguments, fault) ==
    /\ sess[s].pc = "idle"
    /\ LET name == "get_pages"
           exc == FirstExc(arguments, RequiredKeys(name))
           space == arguments.map["space"]
           parent_id == Get(arguments, "parent_id")
       IN  Finish(s, name, arguments,
              IF exc # "" THEN Handled(name, exc)
              ELSE IF CallExc(s, fault) # "" THEN Handled(name, CallExc(s, fault))
              ELSE IF TruthyId(parent_id)
              THEN IF parent_id.val \notin DOMAIN store THEN Handled(name, "StoreError")
                   ELSE Text(<<"Pages under parent ", parent_id.val,
                               Listing(ChildrenOf(parent_id.val))>>)
              ELSE IF space \notin Spaces THEN Handled(name, "StoreError")
                   ELSE Text(<<"Pages in space ", space,
                               Listing(Limited(PagesIn(space), PagesLimit))>>))
    /\ UNCHANGED <<store, confluence>>

GetPageContent(s, arguments, fault) ==
    /\ sess[s].pc = "idle"
    /\ LET name == "get_page_content"
           exc == FirstExc(arguments, RequiredKeys(name))
           page_id == arguments.map["page_id"]
       IN  Finish(s, name, arguments,
              IF exc # "" THEN Handled(name, exc)
              ELSE IF FetchExc(s, page_id, fault) # ""
              THEN Handled(name, FetchExc(s, page_id, fault))
              ELSE Text(<<"Page: ", store[page_id].title, "ID: ", page_id,
                          "Content preview: ",
                          Take(store[page_id].body, PreviewLen), "...">>))
    /\ UNCHANGED <<store, confluence>>

GetFullPageContent(s, arguments, fault) ==
    /\ sess[s].pc = "idle"
    /\ LET name == "get_full_page_content"
           exc == FirstExc(arguments, RequiredKeys(name))
           page_id == arguments.map["page_id"]
       IN  Finish(s, name, arguments,
              IF exc # "" THEN Handled(name, exc)
              ELSE IF FetchExc(s, page_id, fault) # ""
              THEN Handled(name, FetchExc(s, page_id, fault))
              ELSE Text(<<"Page: ", store[page_id].title, "ID: ", page_id,
                          "Full content:", store[page_id].body>>))
    /\ UNCHANGED <<store, confluence>>

FindPage(s, arguments, fault) ==
    /\ sess[s].pc = "idle"
    /\ LET name == "find_page"
           exc == FirstExc(arguments, RequiredKeys(name))
           space == arguments.map["space"]
           title == arguments.map["title"]
           pages == Limited(PagesIn(space), FindLimit)
           matches == {p \in pages : Contains(Lower(store[p].title), Lower(title))}
       IN  Finish(s, name, arguments,
              IF exc # "" THEN Handled(name, exc)
              ELSE IF CallExc(s, fault) # "" THEN Handled(name, CallExc(s, fault))
              ELSE IF space \notin Spaces THEN Handled(name, "StoreError")
              ELSE Text(<<"Pages matching ", title, space, Listing(matches)>>))
    /\ UNCHANGED <<store, confluence>>

----------------------------------------------------------------------------
(* The create tools and the unknown tool *)

FreeIds == PageIds \ DOMAIN store

\* The exception confluence.create_page(space, title, body[, parent_id]) raises,
\* "" when the store accepts the page.  The store holds the pages of PageIds.
CreateExc(space, title, parent_id, fault) ==
    IF fault \/ FreeIds = {} \/ space \notin Spaces THEN "StoreError"
    ELSE IF \E p \in PagesIn(space) : store[p].title = title THEN "StoreError"
    ELSE IF TruthyId(parent_id) /\ parent_id.val \notin DOMAIN store THEN "StoreError"
    ELSE ""

StoreAfterCreate(s, space, title, body, parent_id) ==
    LET id == CHOOSE p \in FreeIds : TRUE
    IN  [p \in DOMAIN store \cup {id} |->
            IF p = id
            THEN Page(space, title, body,
                      IF TruthyId(parent_id) THEN parent_id.val ELSE "")
            ELSE store[p]]

\* create_page / create_code_documentation with page body page_content
Create(s, name, arguments, page_content, notConnected, created, fault) ==
    LET exc == FirstExc(arguments, RequiredKeys(name))
        space == arguments.map["space"]
        title == arguments.map["title"]
        parent_id == Get(arguments, "parent_id")
    IN  IF confluence[s] = "None"
        THEN Finish(s, name, arguments, Text(<<notConnected>>)) /\ UNCHANGED store
        ELSE IF exc # ""
        THEN Finish(s, name, arguments, Handled(name, exc)) /\ UNCHANGED store
        ELSE IF CreateExc(space, title, parent_id, fault) # ""
        THEN /\ Finish(s, name, arguments,
                       Handled(name, CreateExc(space, title, parent_id, fault)))
             /\ UNCHANGED store
        ELSE /\ store' = StoreAfterCreate(s, space, title, page_content, parent_id)
             /\ Finish(s, name, arguments,
                       Text(<<created, title, "URL: ", CHOOSE p \in FreeIds : TRUE>>))

CreatePage(s, arguments, fault) ==
    /\ sess[s].pc = "idle"
    /\ Create(s, "create_page", arguments,
              create_simple_content(GetOrEmpty(arguments, "title"),
                                    GetOrEmpty(arguments, "content"),
                                    GetOrEmpty(arguments, "code"),
                                    GetOrEmpty(arguments, "file_path")),
              "Confluence isn't connected, can't create pages right now",
              "**Page created!**", fault)
    /\ UNCHANGED confluence

CreateCodeDocumentation(s, arguments, fault) ==
    /\ sess[s].pc = "idle"
    /\ Create(s, "create_code_documentation", arguments,
              create_code_documentation_content(
                  GetOrEmpty(arguments, "title"),
                  GetOrEmpty(arguments, "code_snippet"),
                  GetOrEmpty(arguments, "functionality_explanation"),
                  GetOrEmpty(arguments, "file_context"),
                  GetOrEmpty(arguments, "project_context")),
              "Confluence isn't connected, can't create documentation right now",
              "**Code documentation created!**", fault)
    /\ UNCHANGED confluence

\* the final else of the router: raise ValueError(f"Unknown tool: {name}")
UnknownTool(s, name, arguments) ==
    /\ sess[s].pc = "idle"
    /\ name \notin ToolNames
    /\ Finish(s, name, arguments, Raise("ValueError", <<"Unknown tool: ", name>>))
    /\ UNCHANGED <<store, confluence>>
----------------------------------------------------------------------------
(* The calls explored *)

Bodies == StrUpTo(MaxBodyLen) \cup ExampleBodies
Markers == StrUpTo(MaxArgLen)
Payloads == StrUpTo(MaxPayloadLen)
BothMarkers == StrUpTo(MaxBothLen)
RaceStrings == StrUpTo(MaxRaceLen)

\* the dict m, with key k when the optional value is there
With(m, k, opt) == IF opt.some THEN (k :> opt.val) @@ m ELSE m
Without(m, k) == [x \in DOMAIN m \ {k} |-> m[x]]

KeysOf(name) == {RequiredKeys(name)[i] : i \in 1..Len(RequiredKeys(name))}

DefaultValue(k) ==
    CASE k = "page_id" -> "p1"
      [] k = "space" -> "S"
      [] k = "title" -> <<"t">>
      [] OTHER -> <<"a">>

\* the required keys of the tool, each with its default value
Filled(name) == [k \in KeysOf(name) |-> DefaultValue(k)]

\* no arguments, an empty dict, one required key missing, an id or a space
\* the store does not know, a page other than the first
Misfits(name) ==
    {NoArguments, EmptyDict, Dict(Filled(name))}
    \cup {Dict(Without(Filled(name), k)) : k \in KeysOf(name)}
    \cup {Dict([Filled(name) EXCEPT !["page_id"] = p]) :
              p \in IF "page_id" \in KeysOf(name) THEN {"p2", "p9"} ELSE {}}
    \cup {Dict([Filled(name) EXCEPT !["space"] = z]) :
              z \in IF "space" \in KeysOf(name) THEN {"Z"} ELSE {}}

Call(name, argumentSets) == {[name |-> name, arguments |-> a] : a \in argumentSets}

ExampleAppends ==
    {Dict([page_id |-> "p1", new_content |-> IntroPayload, insert_after |-> IntroMarker]),
     Dict([page_id |-> "p1", new_content |-> XPayload, insert_after |-> XMarker])}

\* one marker at most from `markers`, or both markers from `both`
AppendArgs(payloads, markers, both) ==
    {Dict(With([page_id |-> "p1", new_content |-> n], "insert_after", ia)) :
        n \in payloads, ia \in Opt(markers)}
    \cup {Dict(With([page_id |-> "p1", new_content |-> n], "insert_before", ib)) :
        n \in payloads, ib \in Opt(markers)}
    \cup {Dict([page_id |-> "p1", new_content |-> n, insert_after |-> ia,
                insert_before |-> ib]) :
        n \in payloads, ia \in both, ib \in both}

RemoveArgs(targets) ==
    {Dict([page_id |-> "p1", content_to_remove |-> t]) : t \in targets}

\* each target with each payload, and with itself
ReplaceArgs(targets, payloads) ==
    {Dict([page_id |-> "p1", old_content |-> t, new_content |-> n]) :
        t \in targets, n \in payloads}
    \cup {Dict([page_id |-> "p1", old_content |-> t, new_content |-> t]) : t \in targets}

MisfitEdits ==
    UNION {Call(name, Misfits(name)) : name \in EditTools}

EditCalls ==
    Call("append_to_page", AppendArgs(Payloads, Markers, BothMarkers) \cup ExampleAppends)
    \cup Call("remove_content", RemoveArgs(Markers))
    \cup Call("replace_content", ReplaceArgs(Markers, Payloads))
    \cup MisfitEdits

SmallEditCalls ==
    Call("append_to_page", AppendArgs(RaceStrings, {}, {}))
    \cup Call("remove_content", RemoveArgs(RaceStrings))
    \cup Call("replace_content", ReplaceArgs(RaceStrings, RaceStrings))

SampleCode ==
    <<" ", "i", "m", "p", "o", "r", "t", " ", "a", "\n", "d", "e", "f", " ", "a", "\n",
      "c", "l", "a", "s", "s", " ", "b", "\n", "a">>

CreatePageArgs ==
    Misfits("create_page") \cup
    {Dict(With(With(With(With([space |-> "S", title |-> t],
                              "content", c), "code", d), "file_path", f),
               "parent_id", q)) :
        t \in {<<"t">>, HomeTitle}, c \in Opt({<<>>, <<"a">>}), d \in Opt({SampleCode}),
        f \in Opt({<<"a">>}), q \in Opt({"", "p1", "p9"})}

CreateCodeDocumentationArgs ==
    Misfits("create_code_documentation") \cup
    {Dict(With(With(With([space |-> "S", title |-> <<"t">>, code_snippet |-> <<"a">>,
                          functionality_explanation |-> <<"b">>],
                         "file_context", c), "project_context", d), "parent_id", q)) :
        c \in Opt({<<>>, <<"a">>}), d \in Opt({<<"b">>}), q \in Opt({"p1"})}

ListSpacesArgs == Misfits("list_spaces")

GetPagesArgs ==
    Misfits("get_pages") \cup
    {Dict(With([space |-> "S"], "parent_id", q)) : q \in Opt({"", "p1", "p9"})}

GetPageContentArgs == Misfits("get_page_content")

GetFullPageContentArgs == Misfits("get_full_page_content")

FindPageArgs ==
    Misfits("find_page") \cup
    {Dict([space |-> "S", title |-> t]) : t \in {<<>>, <<"t">>, <<"T">>, <<"x">>}}

UnknownCalls == UNION {Call(name, Misfits(name)) : name \in UnknownNames}

\* an edited body stays within `limit` characters, unless a documented
\* example call is applied to a documented example body
BodyBound(s, limit) ==
    \/ sess[s].pc # "fetched"
    \/ Len(sess[s].updated_content) <= limit
    \/ sess[s].existing_content \in ExampleBodies /\ sess[s].arguments \in ExampleAppends

\* every call on a connected process whose fetch succeeds; the misfit calls
\* also without a connection and with a fetch that fails
Edit(s) ==
    \/ /\ confluence[s] = "client"
       /\ \E c \in EditCalls :
              EditFetch(s, c.name, c.arguments, FALSE) /\ BodyBound(s, MaxBodyLen)'
       /\ UNCHANGED reads
    \/ /\ \E c \in MisfitEdits : \E fault \in BOOLEAN :
              EditFetch(s, c.name, c.arguments, fault) /\ BodyBound(s, MaxBodyLen)'
       /\ UNCHANGED reads

Persist(s) == (\E fault \in BOOLEAN : EditPersist(s, fault)) /\ UNCHANGED reads

CallGetFullPageContent(s) ==
    /\ \E arguments \in GetFullPageContentArgs : \E fault \in BOOLEAN :
           GetFullPageContent(s, arguments, fault)
    /\ UNCHANGED reads

----------------------------------------------------------------------------
(* One server process editing one page: the three edit tools and the full  *)
(* read, any number of calls one after another                             *)

InitWith(bodies) ==
    /\ store \in {[p \in {"p1"} |-> Page("S", HomeTitle, b, "")] : b \in bodies}
    /\ confluence \in [{1} -> {"None", "client"}]
    /\ sess = [s \in {1} |-> Idle]
    /\ reads = NoReads

Init == InitWith(Bodies)

Next ==
    \/ Edit(1)
    \/ Persist(1)
    \/ CallGetFullPageContent(1)
    \/ Return(1)

Spec == Init /\ [][Next]_vars

----------------------------------------------------------------------------
(* One server process, every tool of the router *)

SmallEdit(s) ==
    \/ /\ confluence[s] = "client"
       /\ \E c \in SmallEditCalls :
              EditFetch(s, c.name, c.arguments, FALSE) /\ BodyBound(s, MaxRaceLen)'
       /\ UNCHANGED reads
    \/ /\ \E c \in MisfitEdits : \E fault \in BOOLEAN :
              EditFetch(s, c.name, c.arguments, fault) /\ BodyBound(s, MaxRaceLen)'
       /\ UNCHANGED reads

CallListSpaces(s) ==
    /\ \E arguments \in ListSpacesArgs : \E fault \in BOOLEAN :
           ListSpaces(s, arguments, fault)
    /\ UNCHANGED reads

CallGetPages(s) ==
    /\ \E arguments \in GetPagesArgs : \E fault \in BOOLEAN :
           GetPages(s, arguments, fault)
    /\ UNCHANGED reads

CallGetPageContent(s) ==
    /\ \E arguments \in GetPageContentArgs : \E fault \in BOOLEAN :
           GetPageContent(s, arguments, fault)
    /\ UNCHANGED reads

CallFindPage(s) ==
    /\ \E arguments \in FindPageArgs : \E fault \in BOOLEAN :
           FindPage(s, arguments, fault)
    /\ UNCHANGED reads

CallCreatePage(s) ==
    /\ \E arguments \in CreatePageArgs : \E fault \in BOOLEAN :
           CreatePage(s, arguments, fault)
    /\ UNCHANGED reads

CallCreateCodeDocumentation(s) ==
    /\ \E arguments \in CreateCodeDocumentationArgs : \E fault \in BOOLEAN :
           CreateCodeDocumentation(s, arguments, fault)
    /\ UNCHANGED reads

CallUnknownTool(s) ==
    /\ \E c \in UnknownCalls : UnknownTool(s, c.name, c.arguments)
    /\ UNCHANGED reads

InitTools == InitWith(RaceStrings)

NextTools ==
    \/ SmallEdit(1)
    \/ Persist(1)
    \/ CallListSpaces(1)
    \/ CallGetPages(1)
    \/ CallGetPageContent(1)
    \/ CallFindPage(1)
    \/ CallGetFullPageContent(1)
    \/ CallCreatePage(1)
    \/ CallCreateCodeDocumentation(1)
    \/ CallUnknownTool(1)
    \/ Return(1)

SpecTools == InitTools /\ [][NextTools]_vars

----------------------------------------------------------------------------
(* Two server processes on the same wiki, one edit call each.  A handler   *)
(* has no await between its fetch and its update, so inside one process    *)
(* calls do not interleave; two processes (one per MCP client) do.         *)

RaceEdit(s) ==
    /\ \E c \in SmallEditCalls : EditFetch(s, c.name, c.arguments, FALSE)
    /\ UNCHANGED reads

RacePersist(s) == EditPersist(s, FALSE) /\ UNCHANGED reads

InitRace ==
    /\ store \in {[p \in {"p1"} |-> Page("S", HomeTitle, b, "")] : b \in RaceStrings}
    /\ confluence = [s \in {1, 2} |-> "client"]
    /\ sess = [s \in {1, 2} |-> Idle]
    /\ reads = NoReads

NextRace == \E s \in {1, 2} : RaceEdit(s) \/ RacePersist(s)

SpecRace == InitRace /\ [][NextRace]_vars

----------------------------------------------------------------------------
(* One server process and another writer of the wiki: edit calls and full  *)
(* reads one after another, the page changed from outside at any moment    *)
(* but the instant a call returns.                                         *)

\* an edit call; a fetch that succeeds is entered in the history with the
\* body the store holds at that moment
FreshEdit(s) ==
    /\ \E c \in SmallEditCalls : \E fault \in BOOLEAN :
           EditFetch(s, c.name, c.arguments, fault) /\ BodyBound(s, MaxRaceLen)'
    /\ reads' = IF sess'[s].pc = "fetched"
                THEN [prev |-> reads.cur, cur |-> Some(store[sess'[s].page_id].body),
                      changed |-> FALSE, between |-> reads.changed]
                ELSE reads

\* another client of the wiki replaces the body of the page
Outside(s) ==
    /\ sess[s].pc # "done"
    /\ \E b \in RaceStrings :
           /\ b # store["p1"].body
           /\ store' = [store EXCEPT !["p1"].body = b]
    /\ sess' = [sess EXCEPT ![s].stale = (sess[s].pc = "fetched" /\ sess[s].page_id = "p1")]
    /\ reads' = [reads EXCEPT !.changed = TRUE]
    /\ UNCHANGED confluence

InitFresh ==
    /\ store \in {[p \in {"p1"} |-> Page("S", HomeTitle, b, "")] : b \in RaceStrings}
    /\ confluence = [s \in {1} |-> "client"]
    /\ sess = [s \in {1} |-> Idle]
    /\ reads = NoReads

NextFresh ==
    \/ FreshEdit(1)
    \/ Persist(1)
    \/ CallGetFullPageContent(1)
    \/ Outside(1)
    \/ Return(1)

SpecFresh == InitFresh /\ [][NextFresh]_vars

----------------------------------------------------------------------------
(* What the claims speak of *)

\* the update_page of the call in progress in process s has been accepted
Persisted(s) == sess[s].pc = "done" /\ sess[s].writes = 1

PersistedCall(s, name) == Persisted(s) /\ sess[s].name = name

\* the body the store holds for the page of the call of process s
StoredBody(s) == store[sess[s].page_id].body

\* the text an edit tool returns when its update went through
SuccessText(s) ==
    Text(<<SuccessPrefix(sess[s].name), sess[s].current_page.title, "URL: ",
           sess[s].page_id>>)

\* every index at which sub starts in s, overlapping occurrences included
Occurrences(s, sub) ==
    {i \in 1..(Len(s) - Len(sub) + 1) : SubSeq(s, i, i + Len(sub) - 1) = sub}

\* the indices of the occurrences a left-to-right scan meets when it resumes
\* after the end of each occurrence it finds (sub is not empty)
RECURSIVE ScanFrom(_, _, _)
ScanFrom(s, sub, i) ==
    IF i + Len(sub) - 1 > Len(s) THEN {}
    ELSE IF SubSeq(s, i, i + Len(sub) - 1) = sub
         THEN {i} \cup ScanFrom(s, sub, i + Len(sub))
    ELSE ScanFrom(s, sub, i + 1)

Before(occ, i) == Cardinality({j \in occ : j < i})

\* in `after`, each occurrence of `occ` in `before` is where `piece` now
\* stands, every earlier occurrence having shifted it by `grow` characters
SplicedAt(before, after, occ, piece, grow) ==
    /\ Len(after) = Len(before) + Cardinality(occ) * grow
    /\ \A i \in occ :
          LET at == i + Before(occ, i) * grow
          IN  SubSeq(after, at, at + Len(piece) - 1) = piece

\* body can be cut down to `kept` by deleting copies of `payload` from it
RECURSIVE StripsTo(_, _, _)
StripsTo(body, payload, kept) ==
    IF body = <<>> THEN kept = <<>>
    ELSE \/ /\ kept # <<>>
            /\ Head(body) = Head(kept)
            /\ StripsTo(Tail(body), payload, Tail(kept))
         \/ /\ payload # <<>>
            /\ StartsWith(body, payload)
            /\ StripsTo(SubSeq(body, Len(payload) + 1, Len(body)), payload, kept)

\* every character of s is one and the same
Uniform(s) == \A i \in 1..Len(s) : s[i] = s[1]

----------------------------------------------------------------------------
(* C3: append_to_page with a non-empty insert_after marker that does not   *)
(* occur in the fetched body (and no insert_before) persists the fetched   *)
(* body followed by the payload, the body a call without marker persists.  *)

C3_Case(s) ==
    /\ PersistedCall(s, "append_to_page")
    /\ ~Truthy(Get(sess[s].arguments, "insert_before"))
    /\ Truthy(Get(sess[s].arguments, "insert_after"))
    /\ ~Contains(sess[s].existing_content, sess[s].arguments.map["insert_after"])

C3_AbsentMarkerAppendsAtEnd ==
    \A s \in DOMAIN sess :
        C3_Case(s) =>
            /\ StoredBody(s) = sess[s].existing_content \o sess[s].arguments.map["new_content"]
            /\ StoredBody(s) =
                   AppendBody(sess[s].existing_content, sess[s].arguments.map["new_content"],
                              None, None)

C3_Witness ==
    \E s \in DOMAIN sess :
        /\ C3_Case(s)
        /\ sess[s].arguments.map["new_content"] # <<>>
        /\ sess[s].existing_content # <<>>

----------------------------------------------------------------------------
(* C5: replace_content with old_content = new_content = T persists a body  *)
(* equal to the fetched body, for every T: empty, absent from the body,    *)
(* occurring in it, overlapping itself.                                    *)

C5_Case(s) ==
    /\ PersistedCall(s, "replace_content")
    /\ sess[s].arguments.map["old_content"] = sess[s].arguments.map["new_content"]

C5_ReplaceBySelfIsIdentity ==
    \A s \in DOMAIN sess : C5_Case(s) => StoredBody(s) = sess[s].existing_content

\* T = "aa" in a body with three a's in a row: the occurrences overlap
C5_Witness ==
    \E s \in DOMAIN sess :
        /\ C5_Case(s)
        /\ Len(sess[s].arguments.map["old_content"]) = 2
        /\ Cardinality(Occurrences(sess[s].existing_content,
                                   sess[s].arguments.map["old_content"])) >= 2
        /\ ScanFrom(sess[s].existing_content, sess[s].arguments.map["old_content"], 1)
               # Occurrences(sess[s].existing_content, sess[s].arguments.map["old_content"])

----------------------------------------------------------------------------
(* C4: remove_content with target T, applied to the body a remove_content  *)
(* with the same T has persisted, leaves that body unchanged, for any T    *)
(* and any body.                                                           *)

C4_DeleteIsIdempotent ==
    \A s \in DOMAIN sess :
        PersistedCall(s, "remove_content") =>
            RemoveBody(StoredBody(s), sess[s].arguments.map["content_to_remove"])
                = StoredBody(s)

(* C4 as amended: the second removal leaves the body unchanged whenever T  *)
(* is empty or repeats one character (any single character included).      *)

C4_Case(s) ==
    /\ PersistedCall(s, "remove_content")
    /\ Uniform(sess[s].arguments.map["content_to_remove"])

C4_UniformDeleteIsIdempotent ==
    \A s \in DOMAIN sess :
        C4_Case(s) =>
            RemoveBody(StoredBody(s), sess[s].arguments.map["content_to_remove"])
                = StoredBody(s)

\* a removal that took something out and left characters of T behind
C4_Witness ==
    \E s \in DOMAIN sess :
        /\ C4_Case(s)
        /\ Len(sess[s].arguments.map["content_to_remove"]) = 2
        /\ StoredBody(s) # sess[s].existing_content
        /\ Contains(StoredBody(s), <<sess[s].arguments.map["content_to_remove"][1]>>)

----------------------------------------------------------------------------
(* C6: when the (non-empty) insert_after marker occurs in the fetched body *)
(* and no insert_before is given, every occurrence of the marker in the    *)
(* body is followed by the payload in the persisted body; the documented   *)
(* Intro example gives the documented result.                              *)

C6_Case(s) ==
    /\ PersistedCall(s, "append_to_page")
    /\ ~Truthy(Get(sess[s].arguments, "insert_before"))
    /\ Truthy(Get(sess[s].arguments, "insert_after"))
    /\ Contains(sess[s].existing_content, sess[s].arguments.map["insert_after"])

C6_Example(s) ==
    /\ sess[s].existing_content = IntroBody
    /\ sess[s].arguments.map["insert_after"] = IntroMarker
    /\ sess[s].arguments.map["new_content"] = IntroPayload

C6_AfterEveryOccurrence ==
    \A s \in DOMAIN sess :
        C6_Case(s) =>
            LET marker == sess[s].arguments.map["insert_after"]
                payload == sess[s].arguments.map["new_content"]
            IN  /\ SplicedAt(sess[s].existing_content, StoredBody(s),
                             Occurrences(sess[s].existing_content, marker),
                             marker \o payload, Len(payload))
                /\ C6_Example(s) => StoredBody(s) = IntroResult

(* C6 as amended: every occurrence of the marker that a left-to-right scan *)
(* meets when it resumes after the end of each occurrence found (the       *)
(* non-overlapping occurrences) is followed by the payload, and nothing    *)
(* else is added; the Intro example gives the documented result.           *)

C6_AfterEveryScannedOccurrence ==
    \A s \in DOMAIN sess :
        C6_Case(s) =>
            LET marker == sess[s].arguments.map["insert_after"]
                payload == sess[s].arguments.map["new_content"]
            IN  /\ SplicedAt(sess[s].existing_content, StoredBody(s),
                             ScanFrom(sess[s].existing_content, marker, 1),
                             marker \o payload, Len(payload))
                /\ C6_Example(s) => StoredBody(s) = IntroResult

\* the marker occurs twice without overlap and the payload is not empty
C6_Witness ==
    \E s \in DOMAIN sess :
        /\ C6_Case(s)
        /\ sess[s].arguments.map["new_content"] # <<>>
        /\ Cardinality(ScanFrom(sess[s].existing_content,
                                sess[s].arguments.map["insert_after"], 1)) = 2

----------------------------------------------------------------------------
(* C7: on the body "X marker X", append_to_page with insert_after =        *)
(* "marker" and payload "!" persists "X marker! X marker! X".              *)

C7_Call(s) ==
    /\ PersistedCall(s, "append_to_page")
    /\ ~Has(sess[s].arguments, "insert_before")
    /\ Get(sess[s].arguments, "insert_after") = Some(XMarker)
    /\ sess[s].arguments.map["new_content"] = XPayload

C7_XMarkerXGivesTwoInsertions ==
    \A s \in DOMAIN sess :
        C7_Call(s) /\ sess[s].existing_content = XBody => StoredBody(s) = XXResult

(* C7 as amended: "X marker X" holds the marker once and becomes           *)
(* "X marker! X"; it is "X marker X marker X" that becomes                 *)
(* "X marker! X marker! X".                                                *)

C7_XMarkerExamples ==
    \A s \in DOMAIN sess :
        C7_Call(s) =>
            /\ sess[s].existing_content = XBody => StoredBody(s) = XResult
            /\ sess[s].existing_content = XXBody => StoredBody(s) = XXResult

C7_Witness ==
    \E s \in DOMAIN sess : C7_Call(s) /\ sess[s].existing_content = XBody

----------------------------------------------------------------------------
(* C8: with a non-empty insert_before marker, when the marker occurs in    *)
(* the fetched body every occurrence of it is preceded by the payload in   *)
(* the persisted body, and when it does not occur the persisted body is    *)
(* the fetched body followed by the payload.                               *)

C8_Case(s) ==
    /\ PersistedCall(s, "append_to_page")
    /\ Truthy(Get(sess[s].arguments, "insert_before"))

C8_BeforeEveryOccurrence ==
    \A s \in DOMAIN sess :
        C8_Case(s) =>
            LET marker == sess[s].arguments.map["insert_before"]
                payload == sess[s].arguments.map["new_content"]
            IN  IF Contains(sess[s].existing_content, marker)
                THEN SplicedAt(sess[s].existing_content, StoredBody(s),
                               Occurrences(sess[s].existing_content, marker),
                               payload \o marker, Len(payload))
                ELSE StoredBody(s) = sess[s].existing_content \o payload

(* C8 as amended: the occurrences are those a left-to-right scan meets     *)
(* when it resumes after the end of each occurrence found (the             *)
(* non-overlapping ones); the fallback is as stated.                       *)

C8_BeforeEveryScannedOccurrence ==
    \A s \in DOMAIN sess :
        C8_Case(s) =>
            LET marker == sess[s].arguments.map["insert_before"]
                payload == sess[s].arguments.map["new_content"]
            IN  IF Contains(sess[s].existing_content, marker)
                THEN SplicedAt(sess[s].existing_content, StoredBody(s),
                               ScanFrom(sess[s].existing_content, marker, 1),
                               payload \o marker, Len(payload))
                ELSE StoredBody(s) = sess[s].existing_content \o payload

\* the marker occurs twice without overlap and the payload is not empty
C8_Witness ==
    \E s \in DOMAIN sess :
        /\ C8_Case(s)
        /\ sess[s].arguments.map["new_content"] # <<>>
        /\ Cardinality(ScanFrom(sess[s].existing_content,
                                sess[s].arguments.map["insert_before"], 1)) = 2

----------------------------------------------------------------------------
(* C9: when the target does not occur in the fetched body, remove_content  *)
(* and replace_content persist a body identical to the fetched one and     *)
(* return the success text of the tool, which says nothing of the miss.    *)

C9_Target(s) ==
    IF sess[s].name = "remove_content" THEN sess[s].arguments.map["content_to_remove"]
    ELSE sess[s].arguments.map["old_content"]

C9_Case(s) ==
    /\ Persisted(s)
    /\ sess[s].name \in {"remove_content", "replace_content"}
    /\ ~Contains(sess[s].existing_content, C9_Target(s))

C9_AbsentTargetIsSilentNoOp ==
    \A s \in DOMAIN sess :
        C9_Case(s) =>
            /\ StoredBody(s) = sess[s].existing_content
            /\ sess[s].result = SuccessText(s)

C9_Witness ==
    \E s \in DOMAIN sess :
        /\ C9_Case(s)
        /\ sess[s].name = "replace_content"
        /\ sess[s].arguments.map["new_content"] # <<>>
        /\ sess[s].existing_content # <<>>

----------------------------------------------------------------------------
(* C10: whatever the markers, the body append_to_page persists holds the   *)
(* fetched body as a subsequence, and deleting inserted copies of the      *)
(* payload from it gives back exactly the fetched body.                    *)

C10_AppendPreservesContent ==
    \A s \in DOMAIN sess :
        PersistedCall(s, "append_to_page") =>
            StripsTo(StoredBody(s), sess[s].arguments.map["new_content"],
                     sess[s].existing_content)

\* a payload spliced in the middle of the body, after a marker
C10_Witness ==
    \E s \in DOMAIN sess :
        /\ C6_Case(s)
        /\ sess[s].arguments.map["new_content"] # <<>>
        /\ ~StartsWith(StoredBody(s), sess[s].existing_content)

----------------------------------------------------------------------------
(* C1: two edit calls on the same page that both fetched the body before   *)
(* either called update_page: once both have persisted, the stored body is *)
(* the body computed by the call that persisted last, which is its splice  *)
(* of the body as it was before the other call's change, and both calls    *)
(* have returned their success text.                                       *)
(* A call is stale when the store accepted another write to its page       *)
(* between its fetch and its own update: it is the one that persisted      *)
(* last, and the other call's fetch came before both updates.              *)

C1_Raced(last, first) ==
    /\ last # first
    /\ Persisted(last) /\ Persisted(first)
    /\ sess[last].name \in EditTools /\ sess[first].name \in EditTools
    /\ sess[last].page_id = sess[first].page_id
    /\ sess[last].stale

C1_LastWriteWins ==
    \A last \in DOMAIN sess : \A first \in DOMAIN sess :
        C1_Raced(last, first) =>
            /\ StoredBody(last) = sess[last].updated_content
            /\ StoredBody(last) =
                   UpdatedContent(sess[last].name, sess[last].arguments,
                                  sess[first].existing_content)
            /\ sess[last].result = SuccessText(last)
            /\ sess[first].result = SuccessText(first)

\* the first call's change is lost: the stored body is neither what the first
\* call wrote nor what the last call would have made of it
C1_Witness ==
    \E last \in DOMAIN sess : \E first \in DOMAIN sess :
        /\ C1_Raced(last, first)
        /\ sess[first].updated_content # sess[first].existing_content
        /\ StoredBody(last) # sess[first].updated_content
        /\ StoredBody(last) #
               UpdatedContent(sess[last].name, sess[last].arguments,
                              sess[first].updated_content)

----------------------------------------------------------------------------
(* C2: a call of handle_call_tool ends in an exception if and only if the  *)
(* tool name is not one of the ten recognised names; for a recognised      *)
(* name it ends in a text result whatever the arguments (none, a missing   *)
(* key), the connection (none) and the failures of the store calls.        *)

C2_RaisesOnlyOnUnknownTool ==
    \A s \in DOMAIN sess :
        sess[s].pc = "done" =>
            /\ sess[s].result.kind \in {"text", "raise"}
            /\ sess[s].result.kind = "raise" <=> sess[s].name \notin ToolNames

\* a recognised tool called without its required key has returned a text
C2_Witness ==
    \E s \in DOMAIN sess :
        /\ sess[s].pc = "done"
        /\ sess[s].name = "find_page"
        /\ sess[s].arguments.given
        /\ ~Has(sess[s].arguments, "title")
        /\ sess[s].result.kind = "text"

----------------------------------------------------------------------------
(* C11: the body an edit call persists is its splice applied to the body   *)
(* the store held at that call's own fetch, whatever calls and outside     *)
(* modifications came before; the body an earlier call fetched plays no    *)
(* part, and between two calls the process holds nothing of the last one.  *)

C11_Fetched(s) ==
    /\ sess[s].name \in EditTools
    /\ sess[s].pc = "fetched" \/ Persisted(s)

C11_EditReadsFresh ==
    \A s \in DOMAIN sess :
        /\ sess[s].pc = "idle" => sess[s] = Idle
        /\ C11_Fetched(s) =>
               /\ reads.cur.some
               /\ sess[s].existing_content = reads.cur.val
               /\ sess[s].updated_content =
                      UpdatedContent(sess[s].name, sess[s].arguments, reads.cur.val)
        /\ Persisted(s) /\ sess[s].name \in EditTools =>
               StoredBody(s) = UpdatedContent(sess[s].name, sess[s].arguments, reads.cur.val)

\* an edit has persisted after an earlier edit call fetched another body and
\* the page was changed from outside in between; its splice of that earlier
\* body would have given another result
C11_Witness ==
    \E s \in DOMAIN sess :
        /\ Persisted(s) /\ sess[s].name \in EditTools
        /\ reads.prev.some
        /\ reads.between
        /\ reads.prev.val # reads.cur.val
        /\ StoredBody(s) # UpdatedContent(sess[s].name, sess[s].arguments, reads.prev.val)

----------------------------------------------------------------------------
(* C12: in append_to_page a non-empty insert_before decides alone where    *)
(* the payload goes: the result is the splice before that marker, or the   *)
(* body followed by the payload when the marker is not in the body,        *)
(* whatever insert_after is.  A marker that is absent or the empty string  *)
(* counts as not supplied: insert_after is used only then, and the payload *)
(* goes to the end when neither marker is supplied.                        *)

C12_Supplied(marker) == marker.some /\ marker.val # <<>>

C12_BeforeTakesPrecedence ==
    \A s \in DOMAIN sess :
        PersistedCall(s, "append_to_page") =>
            LET body == sess[s].existing_content
                payload == sess[s].arguments.map["new_content"]
                after == Get(sess[s].arguments, "insert_after")
                before == Get(sess[s].arguments, "insert_before")
            IN  /\ C12_Supplied(before) =>
                       StoredBody(s) =
                           IF Contains(body, before.val)
                           THEN Replace(body, before.val, payload \o before.val)
                           ELSE body \o payload
                /\ ~C12_Supplied(before) /\ C12_Supplied(after) =>
                       StoredBody(s) =
                           IF Contains(body, after.val)
                           THEN Replace(body, after.val, after.val \o payload)
                           ELSE body \o payload
                /\ ~C12_Supplied(before) /\ ~C12_Supplied(after) =>
                       StoredBody(s) = body \o payload

\* both markers given, insert_before not in the body, insert_after in it: the
\* payload is at the end and not after the insert_after marker
C12_Witness ==
    \E s \in DOMAIN sess :
        /\ PersistedCall(s, "append_to_page")
        /\ C12_Supplied(Get(sess[s].arguments, "insert_before"))
        /\ C12_Supplied(Get(sess[s].arguments, "insert_after"))
        /\ ~Contains(sess[s].existing_content, sess[s].arguments.map["insert_before"])
        /\ Contains(sess[s].existing_content, sess[s].arguments.map["insert_after"])
        /\ StoredBody(s) = sess[s].existing_content \o sess[s].arguments.map["new_content"]
        /\ StoredBody(s) # Replace(sess[s].existing_content,
                                   sess[s].arguments.map["insert_after"],
                                   sess[s].arguments.map["insert_after"]
                                       \o sess[s].arguments.map["new_content"])

----------------------------------------------------------------------------
(* C13: an edit call that lacks a required argument, or whose fetch of the *)
(* page does not return a page, ends with the error text of its tool, no   *)
(* update_page and the store as it was.  update_page happens only in the   *)
(* step that leaves a call which holds a fetched page, so at most once per *)
(* call and never without a successful fetch.                              *)

C13_ErrorText(r, name) ==
    r.kind = "text" /\ Len(r.text) = 2 /\ r.text[1] = ErrorPrefix(name)

\* the step in which process s takes an edit call that cannot go through
C13_FailedEdit(s) ==
    /\ sess[s].pc = "idle"
    /\ sess'[s].pc # "idle"
    /\ sess'[s].name \in EditTools
    /\ \/ FirstExc(sess'[s].arguments, RequiredKeys(sess'[s].name)) # ""
       \/ sess'[s].current_page = NoPage

C13_FailedEditLeavesStore ==
    /\ [](\A s \in DOMAIN sess :
             /\ sess[s].writes <= 1
             /\ sess[s].writes = 1 => sess[s].pc = "done" /\ sess[s].current_page # NoPage
             /\ sess[s].pc = "fetched" => sess[s].current_page # NoPage)
    /\ [][\A s \in DOMAIN sess :
             /\ C13_FailedEdit(s) =>
                    /\ sess'[s].pc = "done"
                    /\ C13_ErrorText(sess'[s].result, sess'[s].name)
                    /\ sess'[s].writes = 0
                    /\ store' = store
             /\ store' # store \/ sess'[s].writes > sess[s].writes =>
                    /\ sess[s].pc = "fetched" /\ sess'[s].pc = "done"
                    /\ sess[s].writes = 0 /\ sess'[s].writes = 1
                    /\ sess[s].current_page # NoPage]_vars

\* an edit call with all its arguments has returned the error text after a
\* fetch that failed on a page the store holds
C13_Witness ==
    \E s \in DOMAIN sess :
        /\ sess[s].pc = "done"
        /\ sess[s].name \in EditTools
        /\ FirstExc(sess[s].arguments, RequiredKeys(sess[s].name)) = ""
        /\ sess[s].arguments.map["page_id"] \in DOMAIN store
        /\ confluence[s] = "client"
        /\ sess[s].current_page = NoPage
        /\ C13_ErrorText(sess[s].result, sess[s].name)
        /\ sess[s].writes = 0

====
